---- MODULE Spec2Model ----
(***************************************************************************)
(* Model of the quiz session of src/src/pages/Competition.tsx: the load   *)
(* of questions and progress, the morse input buffer, the asynchronous    *)
(* submit handler (with the closures it captures while its upsert is in   *)
(* flight), the gating check and the Go Back recovery; and of the         *)
(* leaderboard of src/unnamed/part_000 (the Navbar): the paginated fetch, *)
(* the aggregation into ranked entries and the retry chain.               *)
(*                                                                         *)
(* Strings are sequences of one-character strings.  Indices are 0-based   *)
(* as in the source; questions[i] of the source is questions[i + 1] here. *)
(* A JavaScript object used as a map is a function whose DOMAIN is the    *)
(* set of keys present.  A nullable Date is <<>> (null) or <<ms>>.        *)
(***************************************************************************)
EXTENDS Integers, Sequences, FiniteSets, TLC

\* ---------------------------------------------------------------- bounds
\* Longest question list the store holds.
MaxQuestions == 2
\* Longest morse input the user types.
MaxLen == 2
\* Most submits awaiting their upsert at once.
MaxPending == 2
\* Most submits that reach the store in one session.
MaxSubmits == 2
\* Longest question list of the load-only specification.
MaxLoadQuestions == 5
\* Number of clock ticks (of half a second) in a session.
MaxTicks == 1
\* Longest log the aggregation is run on row by row.
MaxRows == 3
\* Most users of a log built user by user.
MaxUsers == 12
\* Most leaderboard loads started by the effect and the buttons.
MaxLoads == 2
\* Most page reads the store fails.
MaxFailedReads == 2
\* Most full pages of correct rows in the table.
MaxPages == 2
\* Most submits that reach the store in a session on three questions.
MaxBackSubmits == 3

VARIABLES
    dbQuestions,          \* store: table "questions", ordered by question_number
    store,                \* store: table "user_answers" of this user, keyed by question_id
    now,                  \* wall clock, in ms
    questions,            \* useState<Question[]>
    currentQuestionIndex, \* useState(0)
    morseInput,           \* useState("")
    questionStartTime,    \* useState<Date | null>
    userProgress,         \* useState<{currentQuestionIndex, answers, completedQuestions}>
    loading,              \* useState(true)
    toast,                \* title/description of the last toast shown
    pending,              \* handleSubmit calls suspended at `await upsert`
    resultsTimer,         \* a setTimeout(() => navigate("/results")) is scheduled
    submitted,            \* number of upserts sent so far (bounds the session)
    route,                \* "competition" while the page is mounted
    answerLog,            \* store: table "user_answers" of every user, in select order
    navMounted,           \* the Navbar is on screen
    leaderboard,          \* useState<LeaderboardEntry[]>([])
    isLeaderboardLoading, \* useState(false)
    leaderboardError,     \* useState<string | null>(null): <<>> or <<message>>
    isLeaderboardOpen,    \* useState(false)
    calls,                \* loadLeaderboard calls suspended at `await ... .range()`
    retryTimers,          \* pending setTimeout(() => loadLeaderboard(retryCount + 1), delay)
    loadsStarted,         \* number of loads started by the effect or a button
    failedReads           \* number of page reads the store has failed

\* the Navbar and the table its leaderboard is computed from
navbar == <<answerLog, navMounted, leaderboard, isLeaderboardLoading, leaderboardError,
            isLeaderboardOpen, calls, retryTimers, loadsStarted, failedReads>>

vars == <<dbQuestions, store, now, questions, currentQuestionIndex, morseInput,
          questionStartTime, userProgress, loading, toast, pending,
          resultsTimer, submitted, route, navbar>>

\* the component's own state (everything the hooks of Competition hold)
component == <<questions, currentQuestionIndex, morseInput, questionStartTime,
               userProgress, loading>>

\* ------------------------------------------------------------ data values
Symbols == {".", "-"}

\* correct answers the administrator may have stored: one is a prefix of the other
AnswerPool == {<<".">>, <<".", "-">>}

QuestionId(n) == 100 + n

\* The question table: question_number contiguous from 1, any correct answers.
QuestionTables ==
    UNION {
        {[i \in 1..n |-> [id |-> QuestionId(i), question_number |-> i,
                          correct_answer |-> ca[i]]] : ca \in [1..n -> AnswerPool]}
        : n \in 0..MaxQuestions}

QuestionIds(qs) == {qs[i].id : i \in 1..Len(qs)}

CorrectAnswerOf(qs, id) ==
    LET i == CHOOSE j \in 1..Len(qs) : qs[j].id = id IN qs[i].correct_answer

\* String.prototype.trim: strips white space at both ends.
IsSpace(c) == c \in {" ", "\t", "\n"}

RECURSIVE TrimStart(_)
TrimStart(s) ==
    IF s # <<>> /\ IsSpace(Head(s)) THEN TrimStart(Tail(s)) ELSE s

RECURSIVE TrimEnd(_)
TrimEnd(s) ==
    IF s # <<>> /\ IsSpace(s[Len(s)]) THEN TrimEnd(SubSeq(s, 1, Len(s) - 1)) ELSE s

Trim(s) == TrimEnd(TrimStart(s))

\* ------------------------------------------------------- JavaScript objects
EmptyMap == [k \in {} |-> k]

\* { ...m, [k]: v }
Put(m, k, v) == [x \in (DOMAIN m) \cup {k} |-> IF x = k THEN v ELSE m[x]]

\* ------------------------------------------------------------------ store
\* An answer log the store may hold for this user when the page is opened:
\* at most one record per question (the write is an upsert), is_correct as
\* it was computed against the immutable correct_answer.
StoredRecord(qs, id, ans) ==
    [question_id |-> id, user_answer |-> ans,
     is_correct |-> (ans = CorrectAnswerOf(qs, id)),
     time_taken_seconds |-> 0, answered_at |-> 0]

AnswerLogs(qs) ==
    UNION {
        {[id \in S |-> StoredRecord(qs, id, given[id])] : given \in [S -> AnswerPool]}
        : S \in SUBSET QuestionIds(qs)}

\* The rows of a select come back in no significant order.
Orderings(S) ==
    {o \in [1..Cardinality(S) -> S] : \A i, j \in 1..Cardinality(S) : o[i] = o[j] => i = j}

\* ---------------------------------------------- fetchQuestionsAndProgress
\* userAnswers.forEach(...): the answers map after the first k rows.
RECURSIVE AnswersAfter(_, _)
AnswersAfter(userAnswers, k) ==
    IF k = 0 THEN EmptyMap
    ELSE LET answer == userAnswers[k]
         IN  Put(AnswersAfter(userAnswers, k - 1), answer.question_id,
                 [answer |-> answer.user_answer,
                  isCorrect |-> answer.is_correct,
                  timestamp |-> answer.answered_at])

\* userAnswers.forEach(...): completedQuestions after the first k rows.
RECURSIVE CompletedAfter(_, _)
CompletedAfter(userAnswers, k) ==
    IF k = 0 THEN <<>>
    ELSE LET before == CompletedAfter(userAnswers, k - 1)
         IN  IF userAnswers[k].is_correct
             THEN Append(before, userAnswers[k].question_id)
             ELSE before

\* The for loop of lines 76-86, entered at index i with currentQuestionIndex 0.
RECURSIVE ScanFrom(_, _, _)
ScanFrom(questionsData, answers, i) ==
    IF i >= Len(questionsData) THEN 0
    ELSE LET q == questionsData[i + 1]
         IN  IF q.id \notin DOMAIN answers \/ ~answers[q.id].isCorrect
             THEN i
             ELSE IF i = Len(questionsData) - 1
                  THEN Len(questionsData) - 1
                  ELSE ScanFrom(questionsData, answers, i + 1)

\* Mutant of FindCurrentIndex: the loop without its `break` ends on the last
\* question that is not answered correctly.
FindCurrentIndex_NoBreak(questionsData, answers) ==
    LET open == {i \in 0..(Len(questionsData) - 1) :
                    questionsData[i + 1].id \notin DOMAIN answers
                    \/ ~answers[questionsData[i + 1].id].isCorrect}
    IN  IF open = {}
        THEN (IF Len(questionsData) > 0 THEN Len(questionsData) - 1 ELSE 0)
        ELSE CHOOSE m \in open : \A n \in open : n <= m

FindCurrentIndex(questionsData, answers) == ScanFrom(questionsData, answers, 0)

\* -------------------------------------------------------------- rendering
\* Mutant of canAccessQuestion: any outcome for the previous question opens
\* the next one (`return !!previousAnswer`).
canAccessQuestion_AnyOutcome(questionIndex) ==
    IF questionIndex = 0 THEN "true"
    ELSE IF Len(questions) = 0 THEN "false"
    ELSE IF questions[questionIndex].id \in DOMAIN userProgress.answers THEN "true"
    ELSE "false"

\* canAccessQuestion returns `previousAnswer && previousAnswer.isCorrect`,
\* which is undefined when the map has no entry for the previous question.
canAccessQuestion(questionIndex) ==
    IF questionIndex = 0 THEN "true"
    ELSE IF Len(questions) = 0 THEN "false"
    ELSE LET previousQuestionId == questions[questionIndex].id
         IN  IF previousQuestionId \notin DOMAIN userProgress.answers THEN "undefined"
             ELSE IF userProgress.answers[previousQuestionId].isCorrect THEN "true"
             ELSE "false"

\* JavaScript truthiness of the values canAccessQuestion returns.
Truthy(v) == v = "true"

\* Which of the four returns of the component body is rendered.
View ==
    IF loading THEN "loading"
    ELSE IF ~Truthy(canAccessQuestion(currentQuestionIndex)) THEN "locked"
    ELSE IF Len(questions) = 0 THEN "nothing"
    ELSE "question"

Mounted == route = "competition"

\* `currentAnswer?.isCorrect` of the question view.
CurrentAnswerIsCorrect ==
    LET id == questions[currentQuestionIndex + 1].id
    IN  id \in DOMAIN userProgress.answers /\ userProgress.answers[id].isCorrect

\* The `disabled` attribute of the SUBMIT button.
SubmitDisabled ==
    morseInput = <<>>
    \/ (CurrentAnswerIsCorrect /\ currentQuestionIndex = Len(questions) - 1)

\* ---------------------------------------------------------------- initial
InitialProgress ==
    [currentQuestionIndex |-> 0, answers |-> EmptyMap, completedQuestions |-> <<>>]

\* The Navbar as constructed: the initial values of its useState hooks, no
\* load started yet (the effect runs after the first render).
InitNavbar ==
    /\ navMounted = TRUE
    /\ leaderboard = <<>>
    /\ isLeaderboardLoading = FALSE
    /\ leaderboardError = <<>>
    /\ isLeaderboardOpen = FALSE
    /\ calls = EmptyMap
    /\ retryTimers = <<>>
    /\ loadsStarted = 0
    /\ failedReads = 0

InitComponent ==
    /\ now = 0
    /\ questions = <<>>
    /\ currentQuestionIndex = 0
    /\ morseInput = <<>>
    /\ questionStartTime = <<>>
    /\ userProgress = InitialProgress
    /\ loading = TRUE
    /\ toast = "none"
    /\ pending = EmptyMap
    /\ resultsTimer = FALSE
    /\ submitted = 0
    /\ route = "competition"

\* The page is opened by a user whose answer log is whatever the store holds.
Init ==
    /\ dbQuestions \in QuestionTables
    /\ store \in AnswerLogs(dbQuestions)
    /\ InitComponent
    /\ answerLog = <<>>
    /\ InitNavbar

\* A question table of every length up to MaxLoadQuestions (correct answers
\* alternate between the two of the pool) with any answer log.
LoadTables ==
    {[i \in 1..n |-> [id |-> QuestionId(i), question_number |-> i,
                      correct_answer |-> IF i % 2 = 1 THEN <<".">> ELSE <<".", "-">>]]
     : n \in 0..MaxLoadQuestions}

InitLoad ==
    /\ dbQuestions \in LoadTables
    /\ store \in AnswerLogs(dbQuestions)
    /\ InitComponent
    /\ answerLog = <<>>
    /\ InitNavbar

\* The page is opened by a user who has never answered.
InitFresh ==
    /\ dbQuestions \in QuestionTables
    /\ store = EmptyMap
    /\ InitComponent
    /\ answerLog = <<>>
    /\ InitNavbar

\* ------------------------------------------------------------------ clock
Tick ==
    /\ now < MaxTicks * 500
    /\ now' = now + 500
    /\ UNCHANGED <<navbar, dbQuestions, store, component, toast, pending, resultsTimer, route, submitted>>

\* ------------------------------------------------------------------- load
\* fetchQuestionsAndProgress, both selects succeeding.
LoadSucceeds ==
    /\ Mounted /\ loading
    /\ \E order \in Orderings(DOMAIN store) :
         LET questionsData == dbQuestions
             userAnswers == [k \in DOMAIN order |-> store[order[k]]]
             answers == AnswersAfter(userAnswers, Len(userAnswers))
             completedQuestions == CompletedAfter(userAnswers, Len(userAnswers))
             index == FindCurrentIndex(questionsData, answers)
         IN  /\ questions' = questionsData
             /\ userProgress' = [currentQuestionIndex |-> index,
                                 answers |-> answers,
                                 completedQuestions |-> completedQuestions]
             /\ currentQuestionIndex' = index
    /\ questionStartTime' = <<now>>
    /\ loading' = FALSE
    /\ UNCHANGED <<navbar, dbQuestions, store, now, morseInput, toast, pending, resultsTimer, route, submitted>>

\* fetchQuestionsAndProgress, one of the selects failing: the catch branch.
LoadFails ==
    /\ Mounted /\ loading
    /\ toast' = "Failed to load questions."
    /\ loading' = FALSE
    /\ UNCHANGED <<navbar, dbQuestions, store, now, questions, currentQuestionIndex, morseInput,
                   questionStartTime, userProgress, pending, resultsTimer, route, submitted>>

\* ------------------------------------------------------------ input buffer
InputShown == Mounted /\ View = "question"

addDot ==
    /\ InputShown
    /\ Len(morseInput) < MaxLen
    /\ morseInput' = Append(morseInput, ".")
    /\ UNCHANGED <<navbar, dbQuestions, store, now, questions, currentQuestionIndex,
                   questionStartTime, userProgress, loading, toast, pending,
                   resultsTimer, route, submitted>>

addDash ==
    /\ InputShown
    /\ Len(morseInput) < MaxLen
    /\ morseInput' = Append(morseInput, "-")
    /\ UNCHANGED <<navbar, dbQuestions, store, now, questions, currentQuestionIndex,
                   questionStartTime, userProgress, loading, toast, pending,
                   resultsTimer, route, submitted>>

\* prev.slice(0, -1); the button is disabled while the buffer is empty
backspaceInput ==
    /\ InputShown
    /\ morseInput # <<>>
    /\ morseInput' = SubSeq(morseInput, 1, Len(morseInput) - 1)
    /\ UNCHANGED <<navbar, dbQuestions, store, now, questions, currentQuestionIndex,
                   questionStartTime, userProgress, loading, toast, pending,
                   resultsTimer, route, submitted>>

\* ----------------------------------------------------------- handleSubmit
\* Mutant of IsBlank: the empty-input check is missing.
IsBlank_Never(input) == FALSE

\* line 118: `!morseInput.trim()`
IsBlank(input) == Trim(input) = <<>>

\* Mutant of IsCorrect: `correct_answer.startsWith(morseInput.trim())`.
IsCorrect_Prefix(input, currentQuestion) ==
    /\ Len(Trim(input)) <= Len(currentQuestion.correct_answer)
    /\ SubSeq(currentQuestion.correct_answer, 1, Len(Trim(input))) = Trim(input)

\* line 128: exact string comparison with the question's correct_answer
IsCorrect(input, currentQuestion) == Trim(input) = currentQuestion.correct_answer

\* line 125: Math.floor((endTime - questionStartTime) / 1000)
TimeTakenSeconds(endTime, startTime) == (endTime - startTime) \div 1000

FreeSlot == CHOOSE s \in 1..MaxPending : s \notin DOMAIN pending

\* The handler up to its `await`: what it captures from the render it was
\* created in, and the row it sends.
Suspended ==
    LET currentQuestion == questions[currentQuestionIndex + 1]
        endTime == now
    IN  [currentQuestionIndex |-> currentQuestionIndex,
         morseInput |-> morseInput,
         userProgress |-> userProgress,
         currentQuestion |-> currentQuestion,
         endTime |-> endTime,
         isCorrect |-> IsCorrect(morseInput, currentQuestion),
         row |-> [question_id |-> currentQuestion.id,
                  user_answer |-> Trim(morseInput),
                  is_correct |-> IsCorrect(morseInput, currentQuestion),
                  time_taken_seconds |-> TimeTakenSeconds(endTime, questionStartTime[1]),
                  answered_at |-> now],
         stage |-> "sent"]

\* handleSubmit from its first line to the await of the upsert.
handleSubmit ==
    IF IsBlank(morseInput)
    THEN /\ toast' = "Please enter a morse code answer"
         /\ UNCHANGED <<navbar, dbQuestions, store, now, component, pending, resultsTimer, route, submitted>>
    ELSE IF questionStartTime = <<>> \/ Len(questions) = 0
    THEN UNCHANGED vars
    ELSE /\ pending' = Put(pending, FreeSlot, Suspended)
         /\ submitted' = submitted + 1
         /\ UNCHANGED <<navbar, dbQuestions, store, now, component, toast, resultsTimer, route>>

\* The SUBMIT button is pressed; a disabled button delivers no click.
Click ==
    /\ InputShown
    /\ ~SubmitDisabled
    /\ DOMAIN pending # 1..MaxPending
    /\ handleSubmit

\* a press in a session of at most MaxSubmits upserts
ClickSubmit ==
    /\ submitted < MaxSubmits
    /\ Click

\* The store applies the upsert: the row replaces the one of the same key.
UpsertApplied(s) ==
    /\ s \in DOMAIN pending
    /\ pending[s].stage = "sent"
    /\ store' = Put(store, pending[s].row.question_id, pending[s].row)
    /\ pending' = [pending EXCEPT ![s].stage = "ok"]
    /\ UNCHANGED <<navbar, dbQuestions, now, component, toast, resultsTimer, route, submitted>>

\* The upsert returns an error (or the request throws): nothing is written.
UpsertRejected(s) ==
    /\ s \in DOMAIN pending
    /\ pending[s].stage = "sent"
    /\ pending' = [pending EXCEPT ![s].stage = "err"]
    /\ UNCHANGED <<navbar, dbQuestions, store, now, component, toast, resultsTimer, route, submitted>>

Without(m, k) == [x \in (DOMAIN m) \ {k} |-> m[x]]

\* [...new Set(xs)]: first occurrences, in order
RECURSIVE Distinct(_)
Distinct(xs) ==
    IF xs = <<>> THEN <<>>
    ELSE LET front == Distinct(SubSeq(xs, 1, Len(xs) - 1))
             last == xs[Len(xs)]
         IN  IF \E i \in 1..Len(front) : front[i] = last THEN front ELSE Append(front, last)

\* Mutant of Thrown: the error of the upsert is not looked at.
Thrown_Ignored(p) == FALSE

\* line 140: `if (error) throw error`
Thrown(p) == p.stage = "err"

\* lines 147-157
AnswersWith(p) ==
    Put(p.userProgress.answers, p.currentQuestion.id,
        [answer |-> Trim(p.morseInput), isCorrect |-> p.isCorrect, timestamp |-> p.endTime])

\* line 159
CompletedWith(p) ==
    Distinct(Append(p.userProgress.completedQuestions, p.currentQuestion.id))

\* line 160
HasNext(p) == p.currentQuestionIndex < Len(questions) - 1

\* lines 161-162
NextIndex(p) == p.currentQuestionIndex + 1

\* line 163
ClearedInput == <<>>

\* Mutant of FreshStart: the start time is not reset.
FreshStart_Kept == questionStartTime

\* line 164
FreshStart == <<now>>

\* newProgress as handed to setUserProgress on line 173
NewProgress(p) ==
    [currentQuestionIndex |->
        IF p.isCorrect /\ HasNext(p) THEN NextIndex(p)
        ELSE p.userProgress.currentQuestionIndex,
     answers |-> AnswersWith(p),
     completedQuestions |->
        IF p.isCorrect THEN CompletedWith(p) ELSE p.userProgress.completedQuestions]

\* handleSubmit from the return of the upsert to its end.  The setters of a
\* component that was unmounted meanwhile do nothing; toasts and timers are
\* not the component's.
SubmitResumes(s) ==
    /\ s \in DOMAIN pending
    /\ pending[s].stage \in {"ok", "err"}
    /\ pending' = Without(pending, s)
    /\ LET p == pending[s]
       IN  IF Thrown(p)
           THEN /\ toast' = "Failed to save answer."
                /\ UNCHANGED <<component, resultsTimer>>
           ELSE /\ toast' = IF ~p.isCorrect THEN "Incorrect Answer"
                            ELSE IF HasNext(p) THEN "Correct!" ELSE "Congratulations!"
                /\ resultsTimer' = (resultsTimer \/ (p.isCorrect /\ ~HasNext(p)))
                /\ IF Mounted
                   THEN /\ userProgress' = NewProgress(p)
                        /\ IF p.isCorrect /\ HasNext(p)
                           THEN /\ currentQuestionIndex' = NextIndex(p)
                                /\ morseInput' = ClearedInput
                                /\ questionStartTime' = FreshStart
                           ELSE UNCHANGED <<currentQuestionIndex, morseInput,
                                            questionStartTime>>
                        /\ UNCHANGED <<questions, loading>>
                   ELSE UNCHANGED component
    /\ UNCHANGED <<navbar, dbQuestions, store, now, route, submitted>>

\* The timer of line 168 fires: the router leaves the page.
NavigateToResults ==
    /\ resultsTimer
    /\ resultsTimer' = FALSE
    /\ route' = "results"
    /\ UNCHANGED <<navbar, dbQuestions, store, now, component, toast, pending, submitted>>

\* ---------------------------------------------------------------- Go Back
\* lines 199-202, the button of the locked screen
GoBack ==
    /\ Mounted /\ View = "locked"
    /\ currentQuestionIndex' =
          (IF currentQuestionIndex - 1 > 0 THEN currentQuestionIndex - 1 ELSE 0)
    /\ UNCHANGED <<navbar, dbQuestions, store, now, questions, morseInput, questionStartTime,
                   userProgress, loading, toast, pending, resultsTimer, route, submitted>>

\* ---------------------------------------------------------- specifications
Next ==
    \/ Tick
    \/ LoadSucceeds
    \/ LoadFails
    \/ addDot
    \/ addDash
    \/ backspaceInput
    \/ ClickSubmit
    \/ \E s \in 1..MaxPending : UpsertApplied(s)
    \/ \E s \in 1..MaxPending : UpsertRejected(s)
    \/ \E s \in 1..MaxPending : SubmitResumes(s)
    \/ NavigateToResults
    \/ GoBack

Spec == Init /\ [][Next]_vars

SpecFresh == InitFresh /\ [][Next]_vars

\* The load alone, on longer question lists.
NextLoad ==
    \/ LoadSucceeds
    \/ LoadFails

SpecLoad == InitLoad /\ [][NextLoad]_vars

\* handleSubmit called whatever the SUBMIT button's `disabled` attribute says
\* (the attribute keeps a click from reaching the handler with an empty
\* buffer; the handler's own first check is exercised only this way).
CallSubmit ==
    /\ Mounted
    /\ DOMAIN pending # 1..MaxPending
    /\ submitted < MaxSubmits
    /\ handleSubmit

NextDirect ==
    \/ Next
    \/ CallSubmit

SpecDirect == Init /\ [][NextDirect]_vars

\* A session of up to MaxBackSubmits upserts on three questions, opened by a
\* user who has never answered; every upsert is applied.
InitBack ==
    /\ dbQuestions \in {t \in LoadTables : Len(t) = 3}
    /\ store = EmptyMap
    /\ InitComponent
    /\ answerLog = <<>>
    /\ InitNavbar

\* a press in a session of at most MaxBackSubmits upserts
ClickSubmitBack ==
    /\ submitted < MaxBackSubmits
    /\ Click

NextBack ==
    \/ LoadSucceeds
    \/ addDot
    \/ addDash
    \/ ClickSubmitBack
    \/ \E s \in 1..MaxPending : UpsertApplied(s)
    \/ \E s \in 1..MaxPending : SubmitResumes(s)
    \/ GoBack

SpecBack == InitBack /\ [][NextBack]_vars

\* ============================================================ leaderboard
\* ----------------------------------------------------- program constants
\* const PAGE_SIZE = 100
PAGE_SIZE == 100
\* the divisor of total_score ("5 total questions")
TotalQuestions == 5
\* .slice(0, 10)
BoardSize == 10
\* if (retryCount < 3) ... if (retryCount === 3)
MaxRetries == 3

\* ------------------------------------------------------- rows of the table
\* User ids are UUIDs: as keys of a JavaScript object they are enumerated in
\* the order they were inserted.
UserId(n) == 900 + n

\* display_name of a profile; "" stands for a null or empty name.
Names == <<"", "ana", "ben">>

DisplayNameOf(u) == Names[(u % 3) + 1]

\* A row of user_answers joined with its profile (profiles!inner): the
\* embedded profile is <<profile>>, or <<>> for a row that comes back with
\* profiles null.
AnswerRow(u, q, t, ok) ==
    [user_id |-> u, question_id |-> q, is_correct |-> ok, time_taken_seconds |-> t,
     profiles |-> <<[display_name |-> DisplayNameOf(u)]>>]

BrokenRow(u, q) ==
    [user_id |-> u, question_id |-> q, is_correct |-> TRUE, time_taken_seconds |-> 1,
     profiles |-> <<>>]

\* .eq("is_correct", true), with every row as a mutation of the model
CorrectRows_All(rows) == rows

\* .eq("is_correct", true)
CorrectRows(rows) == SelectSeq(rows, LAMBDA r : r.is_correct)

\* the range with its upper end left out
RangeOf_Exclusive(rows, from, to) ==
    SubSeq(rows, from + 1, IF to < Len(rows) THEN to ELSE Len(rows))

\* .range(from, to) on the filtered select: rows from..to, 0-based, inclusive.
RangeOf(rows, from, to) ==
    SubSeq(rows, from + 1, IF to + 1 < Len(rows) THEN to + 1 ELSE Len(rows))

\* ------------------------------------------------------------- aggregation
\* the pair is counted whether or not it was seen before
IsNewQuestion_Always(userScore, answer) == TRUE

\* !userScores[userId].questionIds.has(answer.question_id)
IsNewQuestion(userScore, answer) == answer.question_id \notin userScore.questionIds

\* answer.profiles.display_name throws a TypeError when profiles is null; it
\* is evaluated for the first row of each user only.
Throws(allAnswers) ==
    \E k \in 1..Len(allAnswers) :
        /\ allAnswers[k].profiles = <<>>
        /\ \A j \in 1..(k - 1) : allAnswers[j].user_id # allAnswers[k].user_id

\* The callback of allAnswers.forEach: userScores (its keys in insertion
\* order and the value at each key) after one more row.
CountAnswer(userScores, answer) ==
    LET userId == answer.user_id
        display_name == answer.profiles[1].display_name
        created ==
            IF userId \in DOMAIN userScores.at THEN userScores
            ELSE [keys |-> Append(userScores.keys, userId),
                  at |-> Put(userScores.at, userId,
                             [name |-> IF display_name # "" THEN display_name
                                       ELSE "Anonymous",
                              correct |-> 0, totalTime |-> 0, questionIds |-> {}])]
        userScore == created.at[userId]
    IN  IF IsNewQuestion(userScore, answer)
        THEN [created EXCEPT !.at[userId] =
                 [userScore EXCEPT
                     !.questionIds = @ \cup {answer.question_id},
                     !.correct = @ + 1,
                     !.totalTime = @ + answer.time_taken_seconds]]
        ELSE created

\* allAnswers.forEach(...) over rows lo..hi, in order.  The range is halved
\* and the first half looked at before the second is entered only to keep
\* the evaluation shallow: after a row there is always a key.
RECURSIVE CountRows(_, _, _, _)
CountRows(userScores, allAnswers, lo, hi) ==
    IF lo > hi THEN userScores
    ELSE IF lo = hi THEN CountAnswer(userScores, allAnswers[lo])
    ELSE LET mid == (lo + hi) \div 2
             firstHalf == CountRows(userScores, allAnswers, lo, mid)
         IN  IF Len(firstHalf.keys) > 0
             THEN CountRows(firstHalf, allAnswers, mid + 1, hi)
             ELSE firstHalf

\* userScores once the forEach is done
userScoresOf(allAnswers) ==
    CountRows([keys |-> <<>>, at |-> EmptyMap], allAnswers, 1, Len(allAnswers))

\* (userData.correct / 5) * 100: for the counts of the model (up to 10) the
\* double product is the integer 20 * correct exactly.
total_score(correct) == (correct * 100) \div TotalQuestions

\* Object.entries(userScores).map(...)
ScoreEntries(userScores) ==
    [i \in 1..Len(userScores.keys) |->
        LET userData == userScores.at[userScores.keys[i]]
        IN  [display_name |-> userData.name,
             total_score |-> total_score(userData.correct),
             total_time |-> userData.totalTime]]

\* the comparator with its tie-break left out
compare_ScoreOnly(a, b) == b.total_score - a.total_score

\* the comparator of .sort: negative when a goes before b
compare(a, b) ==
    IF b.total_score # a.total_score THEN b.total_score - a.total_score
    ELSE a.total_time - b.total_time

\* e put into a sorted list behind everything that does not go after it
Insert(sorted, e) ==
    LET keep == {i \in 0..Len(sorted) : \A j \in 1..i : compare(sorted[j], e) <= 0}
        n == CHOOSE i \in keep : \A j \in keep : j <= i
    IN  SubSeq(sorted, 1, n) \o <<e>> \o SubSeq(sorted, n + 1, Len(sorted))

\* Array.prototype.sort is stable: the first k entries, sorted.
RECURSIVE SortedPrefix(_, _)
SortedPrefix(entries, k) ==
    IF k = 0 THEN <<>> ELSE Insert(SortedPrefix(entries, k - 1), entries[k])

\* nothing is cut off
Slice_All(entries) == entries

\* .slice(0, 10)
Slice(entries) ==
    SubSeq(entries, 1, IF Len(entries) < BoardSize THEN Len(entries) ELSE BoardSize)

\* .map((entry, index) => ({ rank: index + 1, ...entry }))
Ranked(entries) ==
    [i \in 1..Len(entries) |->
        [rank |-> i, display_name |-> entries[i].display_name,
         total_score |-> entries[i].total_score, total_time |-> entries[i].total_time]]

\* leaderboardData of a fetch that gathered allAnswers
leaderboardData(allAnswers) ==
    LET entries == ScoreEntries(userScoresOf(allAnswers))
    IN  Ranked(Slice(SortedPrefix(entries, Len(entries))))

\* --------------------------------------------------------- loadLeaderboard
\* React drops the state update of a component that is no longer mounted.
SetState(old, new) == IF navMounted THEN new ELSE old

FreeCall == CHOOSE c \in 1..MaxLoads : c \notin DOMAIN calls

\* loadLeaderboard(retryCount) up to its first `await`: the two setters, then
\* the request for page 0.
loadLeaderboard(retryCount) ==
    /\ isLeaderboardLoading' = SetState(isLeaderboardLoading, TRUE)
    /\ leaderboardError' = SetState(leaderboardError, <<>>)
    /\ calls' = Put(calls, FreeCall,
                    [retryCount |-> retryCount, page |-> 0, allAnswers |-> <<>>])

\* the same delay before every retry
RetryDelay_Flat(retryCount) == 1000

\* delay of the retry scheduled by attempt retryCount
RetryDelay(retryCount) == (2 ^ retryCount) * 1000

\* Lines 109-163 for a call that left the while loop with allAnswers: the
\* aggregation and setLeaderboard, or the outer catch when the aggregation
\* throws, then the finally block.
Settle(retryCount, allAnswers) ==
    /\ IF Throws(allAnswers)
       THEN /\ leaderboardError' = SetState(leaderboardError, <<"TypeError">>)
            /\ retryTimers' =
                  (IF retryCount < MaxRetries
                   THEN Append(retryTimers, [retryCount |-> retryCount + 1,
                                             delay |-> RetryDelay(retryCount)])
                   ELSE retryTimers)
            /\ UNCHANGED leaderboard
       ELSE /\ leaderboard' = SetState(leaderboard, leaderboardData(allAnswers))
            /\ UNCHANGED <<leaderboardError, retryTimers>>
    /\ isLeaderboardLoading' =
          (IF retryCount = MaxRetries THEN SetState(isLeaderboardLoading, FALSE)
           ELSE isLeaderboardLoading)

\* The store answers the page request of call c with its rows.
PageReturns(c) ==
    /\ c \in DOMAIN calls
    /\ LET call == calls[c]
           data == RangeOf(CorrectRows(answerLog), call.page * PAGE_SIZE,
                           (call.page + 1) * PAGE_SIZE - 1)
           allAnswers == IF Len(data) > 0 THEN call.allAnswers \o data ELSE call.allAnswers
           hasMoreData == Len(data) > 0 /\ ~(Len(data) < PAGE_SIZE)
       IN  IF hasMoreData
           THEN /\ calls' = [calls EXCEPT ![c] = [retryCount |-> call.retryCount,
                                                  page |-> call.page + 1,
                                                  allAnswers |-> allAnswers]]
                /\ UNCHANGED <<leaderboard, isLeaderboardLoading, leaderboardError,
                               retryTimers>>
           ELSE /\ calls' = Without(calls, c)
                /\ Settle(call.retryCount, allAnswers)
    /\ UNCHANGED <<answerLog, navMounted, isLeaderboardOpen, loadsStarted, failedReads>>
    /\ UNCHANGED <<dbQuestions, store, now, component, toast, pending, resultsTimer,
                   submitted, route>>

\* The store fails the page request of call c: the inner catch ends the
\* loop and the call goes on with the pages it has.
PageFails(c) ==
    /\ c \in DOMAIN calls
    /\ failedReads < MaxFailedReads
    /\ failedReads' = failedReads + 1
    /\ calls' = Without(calls, c)
    /\ Settle(calls[c].retryCount, calls[c].allAnswers)
    /\ UNCHANGED <<answerLog, navMounted, isLeaderboardOpen, loadsStarted>>
    /\ UNCHANGED <<dbQuestions, store, now, component, toast, pending, resultsTimer,
                   submitted, route>>

\* A retry timer expires: () => loadLeaderboard(retryCount + 1).
RetryFires(t) ==
    /\ t \in 1..Len(retryTimers)
    /\ loadLeaderboard(retryTimers[t].retryCount)
    /\ retryTimers' = SubSeq(retryTimers, 1, t - 1) \o
                      SubSeq(retryTimers, t + 1, Len(retryTimers))
    /\ UNCHANGED <<answerLog, navMounted, leaderboard, isLeaderboardOpen, loadsStarted,
                   failedReads>>
    /\ UNCHANGED <<dbQuestions, store, now, component, toast, pending, resultsTimer,
                   submitted, route>>

\* A load started with the default retryCount, by the effect or a button.
FreshLoad ==
    /\ loadsStarted < MaxLoads
    /\ loadsStarted' = loadsStarted + 1
    /\ loadLeaderboard(0)
    /\ UNCHANGED <<answerLog, navMounted, leaderboard, isLeaderboardOpen, retryTimers,
                   failedReads>>
    /\ UNCHANGED <<dbQuestions, store, now, component, toast, pending, resultsTimer,
                   submitted, route>>

\* useEffect(() => { loadLeaderboard(); ... }, [user]) on the first render.
MountEffect ==
    /\ navMounted /\ loadsStarted = 0
    /\ FreshLoad

\* The same effect, run again because `user` changed.
UserChanges ==
    /\ navMounted /\ loadsStarted > 0
    /\ FreshLoad

\* setIsLeaderboardOpen(!isLeaderboardOpen)
ToggleLeaderboard ==
    /\ navMounted /\ loadsStarted > 0
    /\ isLeaderboardOpen' = ~isLeaderboardOpen
    /\ UNCHANGED <<answerLog, navMounted, leaderboard, isLeaderboardLoading,
                   leaderboardError, calls, retryTimers, loadsStarted, failedReads>>
    /\ UNCHANGED <<dbQuestions, store, now, component, toast, pending, resultsTimer,
                   submitted, route>>

\* What the open panel shows: the branches of lines 312-353, in their order.
Panel ==
    IF ~(navMounted /\ isLeaderboardOpen) THEN "closed"
    ELSE IF isLeaderboardLoading THEN "Loading leaderboard..."
    ELSE IF leaderboardError # <<>> THEN "error"
    ELSE IF Len(leaderboard) > 0 THEN "entries"
    ELSE "No participants yet"

\* The refresh button of the open panel, disabled={isLeaderboardLoading}.
ClickRefresh ==
    /\ navMounted /\ isLeaderboardOpen /\ loadsStarted > 0
    /\ ~isLeaderboardLoading
    /\ FreshLoad

\* The Try Again button of the error branch.
ClickTryAgain ==
    /\ Panel = "error" /\ loadsStarted > 0
    /\ FreshLoad

\* The page that renders the Navbar is left; nothing is cancelled.
NavUnmounts ==
    /\ navMounted /\ loadsStarted > 0
    /\ navMounted' = FALSE
    /\ UNCHANGED <<answerLog, leaderboard, isLeaderboardLoading, leaderboardError,
                   isLeaderboardOpen, calls, retryTimers, loadsStarted, failedReads>>
    /\ UNCHANGED <<dbQuestions, store, now, component, toast, pending, resultsTimer,
                   submitted, route>>

\* ------------------------------------------- leaderboard specifications
\* Tables the aggregation is run on: a short quiz and one of five questions.
BoardTables == {t \in LoadTables : Len(t) \in {2, TotalQuestions}}

\* Rows a short log is made of: three users, the first two questions, correct
\* rows that took one or two seconds and incorrect rows.
RowPool ==
    {AnswerRow(UserId(u), QuestionId(q), t, TRUE) : u \in 1..3, q \in 1..2, t \in 1..2}
    \cup {AnswerRow(UserId(u), QuestionId(q), 1, FALSE) : u \in 1..3, q \in 1..2}

\* every log of up to MaxRows rows of the pool, in any order, repeats included
ShortLogs == UNION {[1..n -> RowPool] : n \in 0..MaxRows}

\* The rows of user u in a wide log: one correct answer (odd u) or two (even
\* u), the first taking `t` seconds.
WideRows(u, t) ==
    IF u % 2 = 1 THEN <<AnswerRow(UserId(u), QuestionId(1), t, TRUE)>>
    ELSE <<AnswerRow(UserId(u), QuestionId(1), t, TRUE),
           AnswerRow(UserId(u), QuestionId(2), 1, TRUE)>>

RECURSIVE WideLog(_, _)
WideLog(times, n) ==
    IF n = 0 THEN <<>> ELSE WideLog(times, n - 1) \o WideRows(n, times[n])

\* logs of BoardSize - 1 to MaxUsers users
WideLogs ==
    UNION {{WideLog(times, n) : times \in [1..n -> 1..2]} : n \in (BoardSize - 1)..MaxUsers}

\* Session frozen: only the Navbar acts.
InitBoard ==
    /\ \/ dbQuestions \in BoardTables /\ answerLog \in ShortLogs
       \/ dbQuestions \in {t \in BoardTables : Len(t) = TotalQuestions}
          /\ answerLog \in WideLogs
    /\ store = EmptyMap
    /\ InitComponent
    /\ InitNavbar

\* One load, every page read answered.
NextBoard ==
    \/ MountEffect
    \/ \E c \in 1..MaxLoads : PageReturns(c)

SpecBoard == InitBoard /\ [][NextBoard]_vars

\* The k-th row of a long log: every user has twenty rows in a run, four
\* for each of five questions, taking 1 to 3 seconds, all correct.
LongRow(k) ==
    AnswerRow(UserId(1 + (k \div 20)), QuestionId(1 + (k % TotalQuestions)),
              1 + (k % 3), TRUE)

\* An incorrect row, then n correct rows.
LongLog(n) ==
    <<AnswerRow(UserId(1), QuestionId(1), 1, FALSE)>> \o [k \in 1..n |-> LongRow(k)]

\* numbers of correct rows: none, one, and each number of full pages up to
\* MaxPages, alone and with one row more
LogSizes == {0, 1} \cup {p * PAGE_SIZE + d : p \in 1..MaxPages, d \in 0..1}

\* The long logs, and each of them followed by a row of a further user that
\* comes back with profiles null.
NavLogs ==
    {LongLog(n) : n \in LogSizes}
    \cup {Append(LongLog(n), BrokenRow(UserId(99), QuestionId(1))) : n \in LogSizes}

\* Session frozen: only the Navbar acts.
InitNav ==
    /\ dbQuestions \in {t \in BoardTables : Len(t) = TotalQuestions}
    /\ answerLog \in NavLogs
    /\ store = EmptyMap
    /\ InitComponent
    /\ InitNavbar

\* The Navbar with its loads, failing reads, retries and buttons.
NextNav ==
    \/ MountEffect
    \/ UserChanges
    \/ ToggleLeaderboard
    \/ ClickRefresh
    \/ ClickTryAgain
    \/ NavUnmounts
    \/ \E c \in 1..MaxLoads : PageReturns(c)
    \/ \E c \in 1..MaxLoads : PageFails(c)
    \/ \E t \in 1..MaxLoads : RetryFires(t)

SpecNav == InitNav /\ [][NextNav]_vars

\* ------------------------------------------------------ vocabulary of claims
\* The load succeeded (it alone sets the start time).
Loaded == ~loading /\ questionStartTime # <<>>

IdAt(i) == questions[i + 1].id

\* The answer map holds a correct outcome for the question id.
CorrectIn(answers, id) == id \in DOMAIN answers /\ answers[id].isCorrect

Indices(qs) == 0..(Len(qs) - 1)

NotCorrectIndices(qs, answers) == {i \in Indices(qs) : ~CorrectIn(answers, qs[i + 1].id)}

Least(S) == CHOOSE m \in S : \A n \in S : m <= n

\* lowest index without a correct outcome, the last index if there is none
LowestOpenIndex(qs, answers) ==
    IF NotCorrectIndices(qs, answers) # {} THEN Least(NotCorrectIndices(qs, answers))
    ELSE Len(qs) - 1

Range(xs) == {xs[i] : i \in 1..Len(xs)}

\* The step resumes the handler suspended in slot s.
Resumed(s) == s \in DOMAIN pending /\ s \notin DOMAIN pending'

\* The step resumes a submit whose upsert was applied.
ResumedPersisted(s) == Resumed(s) /\ pending[s].stage = "ok"

\* The step resumes a submit whose upsert failed.
ResumedFailed(s) == Resumed(s) /\ pending[s].stage = "err"

LastIndex == Len(questions) - 1

\* C1 (as claimed): after a successful load the current index is always the
\* lowest index whose question has no correct outcome in the progress view,
\* or the last index if every question has one.
C1_IndexIsLowestOpen ==
    (Loaded /\ Len(questions) > 0)
        => currentQuestionIndex = LowestOpenIndex(questions, userProgress.answers)

\* C2: the index computed at load is the index of the first question whose
\* record is missing or incorrect; it is the last index when every question of
\* a non-empty list has a correct record; it is 0 when there are no records.
C2_LoadIndex ==
    Loaded =>
        LET open == {i \in Indices(dbQuestions) :
                        dbQuestions[i + 1].id \notin DOMAIN store
                        \/ ~store[dbQuestions[i + 1].id].is_correct}
        IN  /\ open # {} => currentQuestionIndex = Least(open)
            /\ (open = {} /\ Len(dbQuestions) > 0)
                   => currentQuestionIndex = Len(dbQuestions) - 1
            /\ DOMAIN store = {} => currentQuestionIndex = 0

\* C2 witness: five questions, the first three answered correctly and the
\* fourth incorrectly: the load lands on index 3.
C2_Witness ==
    /\ Loaded
    /\ Len(questions) = 5
    /\ \A i \in 0..2 : CorrectIn(userProgress.answers, IdAt(i))
    /\ IdAt(3) \in DOMAIN userProgress.answers
    /\ ~userProgress.answers[IdAt(3)].isCorrect
    /\ currentQuestionIndex = 3

\* C3: canAccessQuestion(0) is true whatever the list and the answers; for a
\* valid index i > 0 it is true exactly when the answer map holds an outcome
\* for questions[i-1].id and that outcome is correct.
C3_CanAccess ==
    /\ canAccessQuestion(0) = "true"
    /\ \A i \in 1..LastIndex :
          (canAccessQuestion(i) = "true") <=> CorrectIn(userProgress.answers, IdAt(i - 1))

\* C3 witness: five questions loaded with the first three answered correctly
\* and the fourth incorrectly: indices 1..3 are accessible, index 4 is not.
C3_Witness ==
    /\ Loaded
    /\ Len(questions) = 5
    /\ \A i \in 1..3 : canAccessQuestion(i) = "true"
    /\ IdAt(3) \in DOMAIN userProgress.answers
    /\ canAccessQuestion(4) = "false"

\* C4 (as claimed): after a successful load the materialized index is always
\* accessible, so the Locked screen is never rendered.
C4_NeverLocked ==
    Loaded => Truthy(canAccessQuestion(currentQuestionIndex))

\* C5: when the handler of a correct submit made at index i < last resumes
\* after its upsert was applied, the index becomes i + 1, the buffer becomes
\* empty, the start time becomes the current time, and question i has a
\* correct outcome and is in the completed list of the progress view.
C5_CorrectAdvances ==
    [][\A s \in DOMAIN pending :
          (/\ Mounted
           /\ ResumedPersisted(s)
           /\ pending[s].isCorrect
           /\ pending[s].currentQuestionIndex < LastIndex)
          => (/\ currentQuestionIndex' = pending[s].currentQuestionIndex + 1
              /\ morseInput' = <<>>
              /\ questionStartTime' = <<now>>
              /\ CorrectIn(userProgress'.answers, pending[s].currentQuestion.id)
              /\ pending[s].currentQuestion.id \in Range(userProgress'.completedQuestions)
              /\ userProgress'.currentQuestionIndex = currentQuestionIndex')]_vars

\* C5 witness: the first question was answered correctly after the clock had
\* moved: the session is at index 1 with an empty buffer and a start time
\* later than the one of the load.
C5_Witness ==
    /\ Loaded
    /\ currentQuestionIndex = 1
    /\ morseInput = <<>>
    /\ questionStartTime = <<now>>
    /\ now > 0
    /\ toast = "Correct!"
    /\ CorrectIn(userProgress.answers, IdAt(0))
    /\ IdAt(0) \in Range(userProgress.completedQuestions)

\* The session has completed: it is at the last index and the last question
\* has a correct outcome.
Completed ==
    /\ Loaded
    /\ Len(questions) > 0
    /\ currentQuestionIndex = LastIndex
    /\ CorrectIn(userProgress.answers, IdAt(LastIndex))

\* C6 (as claimed): a correct, persisted submit at the last index leaves the
\* index at the last index with the last question correct; and once the
\* session has completed, the submit control stays disabled and no answer
\* record is written any more.
C6_CompletedIsFinal ==
    [][/\ \A s \in DOMAIN pending :
             (/\ Mounted
              /\ ResumedPersisted(s)
              /\ pending[s].isCorrect
              /\ pending[s].currentQuestionIndex = LastIndex)
             => Completed'
       /\ Completed => (Completed' /\ SubmitDisabled' /\ store' = store)]_vars

\* C7 (as claimed): when the handler of an incorrect submit resumes after its
\* upsert was applied, the index, the buffer, the start time and the completed
\* list are unchanged, and the answer map changes only at the submitted
\* question, which gets the incorrect outcome.
C7_IncorrectStays ==
    [][\A s \in DOMAIN pending :
          (/\ Mounted
           /\ ResumedPersisted(s)
           /\ ~pending[s].isCorrect)
          => (/\ UNCHANGED <<currentQuestionIndex, morseInput, questionStartTime>>
              /\ userProgress'.completedQuestions = userProgress.completedQuestions
              /\ DOMAIN userProgress'.answers =
                    (DOMAIN userProgress.answers) \cup {pending[s].currentQuestion.id}
              /\ \A id \in (DOMAIN userProgress.answers) \ {pending[s].currentQuestion.id} :
                    userProgress'.answers[id] = userProgress.answers[id]
              /\ ~userProgress'.answers[pending[s].currentQuestion.id].isCorrect)]_vars

\* C8: a handleSubmit call with an empty buffer only shows its toast: it
\* sends nothing to the store and leaves the index, the buffer, the start
\* time and the progress view as they were; while the buffer is empty no step
\* puts a submit in flight.
C8_EmptyRejected ==
    [][/\ (toast' = "Please enter a morse code answer" /\ toast' # toast)
             => (/\ morseInput = <<>>
                 /\ UNCHANGED <<store, pending, submitted, currentQuestionIndex,
                                morseInput, questionStartTime, userProgress>>)
       /\ morseInput = <<>> => (DOMAIN pending' \subseteq DOMAIN pending)]_vars

\* C8 witness: the handler was called on the question view with an empty
\* buffer: its toast is shown and nothing was sent.
C8_Witness ==
    /\ Loaded
    /\ View = "question"
    /\ morseInput = <<>>
    /\ toast = "Please enter a morse code answer"
    /\ pending = EmptyMap
    /\ submitted = 0

\* C9: when the handler of a submit whose upsert failed resumes, the index,
\* the buffer, the start time and the progress view are as they were, nothing
\* is written to the store and no new submit is sent; and after the load the
\* index only grows in a step that resumes a submit whose upsert was applied.
C9_FailureAborts ==
    [][/\ \A s \in DOMAIN pending :
             ResumedFailed(s)
             => (/\ UNCHANGED <<currentQuestionIndex, morseInput, questionStartTime,
                                userProgress, store, submitted>>
                 /\ DOMAIN pending' = (DOMAIN pending) \ {s})
       /\ (~loading /\ currentQuestionIndex' > currentQuestionIndex)
             => \E s \in DOMAIN pending :
                   /\ ResumedPersisted(s)
                   /\ pending[s].isCorrect
                   /\ currentQuestionIndex' = pending[s].currentQuestionIndex + 1]_vars

\* C9 witness: a correct answer to the first of two questions was submitted,
\* its upsert failed and the handler has resumed: the buffer still holds the
\* answer, the index is still 0 and neither the store nor the progress view
\* has an outcome.
C9_Witness ==
    /\ Loaded
    /\ Len(questions) = 2
    /\ toast = "Failed to save answer."
    /\ pending = EmptyMap
    /\ submitted = 1
    /\ currentQuestionIndex = 0
    /\ morseInput = questions[1].correct_answer
    /\ store = EmptyMap
    /\ userProgress.answers = EmptyMap

\* the answer a is a proper prefix of the answer b
ProperPrefix(a, b) == Len(a) < Len(b) /\ SubSeq(b, 1, Len(a)) = a

\* C10: every row sent to or held by the store, and every outcome of the
\* progress view, is marked correct exactly when its answer equals the
\* correct_answer of its question.
C10_ExactMatch ==
    /\ \A s \in DOMAIN pending :
          pending[s].row.is_correct
             <=> (pending[s].row.user_answer
                     = CorrectAnswerOf(dbQuestions, pending[s].row.question_id))
    /\ \A id \in DOMAIN store :
          store[id].is_correct <=> (store[id].user_answer = CorrectAnswerOf(dbQuestions, id))
    /\ \A id \in DOMAIN userProgress.answers :
          userProgress.answers[id].isCorrect
             <=> (userProgress.answers[id].answer = CorrectAnswerOf(dbQuestions, id))

\* C10 witness: a proper prefix of the correct answer was submitted and the
\* store holds it as incorrect, while an earlier exact answer was recorded
\* as correct.
C10_Witness ==
    /\ Loaded
    /\ Len(questions) = 2
    /\ currentQuestionIndex = 1
    /\ CorrectIn(userProgress.answers, IdAt(0))
    /\ submitted = 2
    /\ IdAt(1) \in DOMAIN store
    /\ ProperPrefix(store[IdAt(1)].user_answer, questions[2].correct_answer)
    /\ ~store[IdAt(1)].is_correct


\* ------------------------------------------- vocabulary of leaderboard claims
\* No load is in flight or scheduled, and one was started.
BoardSettled == loadsStarted > 0 /\ calls = EmptyMap /\ retryTimers = <<>>

\* rows of the log that are marked correct, by position
CorrectAt == {k \in 1..Len(answerLog) : answerLog[k].is_correct}

\* users with a correct row
BoardUsers == {answerLog[k].user_id : k \in CorrectAt}

\* positions of the correct rows of the pair (u, q)
PairAt(u, q) ==
    {k \in CorrectAt : answerLog[k].user_id = u /\ answerLog[k].question_id = q}

\* questions user u has a correct row for
SolvedBy(u) == {answerLog[k].question_id : k \in {j \in CorrectAt : answerLog[j].user_id = u}}

RECURSIVE SumOver(_, _)
SumOver(S, f) ==
    IF S = {} THEN 0
    ELSE LET x == CHOOSE y \in S : TRUE IN f[x] + SumOver(S \ {x}, f)

\* time of the first correct row of each pair of user u, added up
FirstTimesOf(u) ==
    SumOver(SolvedBy(u),
            [q \in SolvedBy(u) |-> answerLog[Least(PairAt(u, q))].time_taken_seconds])

NameShown(u) == IF DisplayNameOf(u) # "" THEN DisplayNameOf(u) ELSE "Anonymous"

\* the number of sequence positions whose element is e
Count(xs, e) == Cardinality({i \in 1..Len(xs) : xs[i] = e})

\* an entry without its rank
Unranked(e) ==
    [display_name |-> e.display_name, total_score |-> e.total_score,
     total_time |-> e.total_time]

\* C11: every user with a correct row has one leaderboard entry whose score
\* counts each of the user's questions once and whose total time adds, for
\* each question, the time of the first correct row of that pair in fetch
\* order only, however many correct rows the pair has (logs of at most
\* BoardSize users, so that no entry is cut off).
C11_PairCountsOnce ==
    (BoardSettled /\ Cardinality(BoardUsers) <= BoardSize)
        => LET expected ==
                   [u \in BoardUsers |->
                       [display_name |-> NameShown(u),
                        total_score |-> total_score(Cardinality(SolvedBy(u))),
                        total_time |-> FirstTimesOf(u)]]
               shown == [i \in 1..Len(leaderboard) |-> Unranked(leaderboard[i])]
           IN  /\ Len(leaderboard) = Cardinality(BoardUsers)
               /\ \A u \in BoardUsers :
                      Count(shown, expected[u])
                          = Cardinality({v \in BoardUsers : expected[v] = expected[u]})

\* A settled load of a log that holds two correct rows of one pair with
\* different times.
C11_Witness ==
    /\ BoardSettled /\ leaderboard # <<>>
    /\ \E j, k \in CorrectAt :
           /\ j < k
           /\ answerLog[j].user_id = answerLog[k].user_id
           /\ answerLog[j].question_id = answerLog[k].question_id
           /\ answerLog[j].time_taken_seconds # answerLog[k].time_taken_seconds

\* C12: of two adjacent leaderboard entries the earlier has the strictly
\* higher score, or the same score and a total time no greater than the
\* later's; of two entries with the same score, one with a strictly lower
\* total time stands above the other.
C12_Ordered ==
    BoardSettled
        => /\ \A i \in 1..(Len(leaderboard) - 1) :
                  \/ leaderboard[i].total_score > leaderboard[i + 1].total_score
                  \/ /\ leaderboard[i].total_score = leaderboard[i + 1].total_score
                     /\ leaderboard[i].total_time <= leaderboard[i + 1].total_time
           /\ \A i, j \in 1..Len(leaderboard) :
                  (/\ leaderboard[i].total_score = leaderboard[j].total_score
                   /\ leaderboard[i].total_time < leaderboard[j].total_time)
                      => leaderboard[i].rank < leaderboard[j].rank

\* first position of a correct row of user u
FirstRowOf(u) == Least({k \in CorrectAt : answerLog[k].user_id = u})

\* A settled load of a log in which two users are tied on score, the slower
\* of them first in the log, and a third user has another score.
C12_Witness ==
    /\ BoardSettled /\ Len(leaderboard) >= 3
    /\ \E u, v, w \in BoardUsers :
           /\ Cardinality(SolvedBy(u)) = Cardinality(SolvedBy(v))
           /\ FirstTimesOf(u) > FirstTimesOf(v)
           /\ FirstRowOf(u) < FirstRowOf(v)
           /\ Cardinality(SolvedBy(w)) # Cardinality(SolvedBy(u))

\* the entry user u is due: name, score of the questions solved, first times
DueEntry(u) ==
    [display_name |-> NameShown(u),
     total_score |-> total_score(Cardinality(SolvedBy(u))),
     total_time |-> FirstTimesOf(u)]

\* entry a ranks strictly above entry b
Outranks(a, b) ==
    \/ a.total_score > b.total_score
    \/ a.total_score = b.total_score /\ a.total_time < b.total_time

\* C13: the leaderboard has exactly min(10, number of users with a fetched
\* correct row) entries, ranked 1, 2, ..., n in order without gap or repeat
\* even among ties, each the entry of a user, and no user left out outranks
\* an entry that was kept.
C13_TopTen ==
    BoardSettled
        => LET n == Len(leaderboard)
               shown == [i \in 1..n |-> Unranked(leaderboard[i])]
           IN  /\ n <= 10
               /\ n = (IF Cardinality(BoardUsers) < 10 THEN Cardinality(BoardUsers) ELSE 10)
               /\ \A i \in 1..n : leaderboard[i].rank = i
               /\ \A i \in 1..n :
                      Count(shown, shown[i])
                          <= Cardinality({u \in BoardUsers : DueEntry(u) = shown[i]})
               /\ \A u \in BoardUsers :
                      (\E i \in 1..n : Outranks(DueEntry(u), shown[i]))
                          => Count(shown, DueEntry(u))
                                 = Cardinality({v \in BoardUsers : DueEntry(v) = DueEntry(u)})

\* A settled load of a log of more than ten users: ten entries, the last of
\* them tied on score with the one before, a user left out who ranks below.
C13_Witness ==
    /\ BoardSettled
    /\ Cardinality(BoardUsers) > 10
    /\ Len(leaderboard) = 10
    /\ leaderboard[9].total_score = leaderboard[10].total_score
    /\ \E u \in BoardUsers : Outranks(Unranked(leaderboard[10]), DueEntry(u))

\* C14: the score of every leaderboard entry is the number of distinct
\* questions its user answered correctly, divided by the number N of
\* questions in the quiz, times 100 (so between 0 and 100).
C14_ScoreOfQuiz ==
    BoardSettled
        => \A i \in 1..Len(leaderboard) :
               /\ \E u \in BoardUsers :
                      /\ leaderboard[i].display_name = NameShown(u)
                      /\ leaderboard[i].total_time = FirstTimesOf(u)
                      /\ leaderboard[i].total_score * Len(dbQuestions)
                             = 100 * Cardinality(SolvedBy(u))
               /\ leaderboard[i].total_score >= 0
               /\ leaderboard[i].total_score <= 100

\* the log with its rows marked incorrect deleted
WithoutIncorrect == SelectSeq(answerLog, LAMBDA row : row.is_correct)

\* C15: rows with is_correct false contribute nothing: the leaderboard is
\* the one the log gives with those rows deleted, every entry is the entry
\* of a user with a correct row, and a user with only incorrect rows or no
\* row has no entry.
C15_OnlyCorrectRows ==
    BoardSettled
        => /\ leaderboard = leaderboardData(WithoutIncorrect)
           /\ \A i \in 1..Len(leaderboard) :
                  \E u \in BoardUsers : Unranked(leaderboard[i]) = DueEntry(u)
           /\ Len(leaderboard) <= Cardinality(BoardUsers)

\* A settled load of a log with an incorrect row of a user who has no correct
\* row, and an incorrect row of a question that has a later correct row.
C15_Witness ==
    /\ BoardSettled /\ leaderboard # <<>>
    /\ \E k \in (1..Len(answerLog)) \ CorrectAt : answerLog[k].user_id \notin BoardUsers
    /\ \E j \in (1..Len(answerLog)) \ CorrectAt : \E k \in CorrectAt :
           j < k /\ answerLog[j].question_id = answerLog[k].question_id

\* The step is the failure of the page read that call c was waiting for.
ReadFailed(c) ==
    c \in DOMAIN calls /\ c \notin DOMAIN calls' /\ failedReads' = failedReads + 1

\* the correct rows of the first k pages
FirstPages(k) ==
    SubSeq(WithoutIncorrect, 1,
           IF k * PAGE_SIZE < Len(WithoutIncorrect) THEN k * PAGE_SIZE
           ELSE Len(WithoutIncorrect))

\* C16: when the fetch of a load fails (its read of the first page), the
\* leaderboard is not replaced by an empty one as if the load had succeeded:
\* a retry is scheduled while fewer than 3 retries were made, and only the
\* failure of the last retry leaves the error set.
C16_FailedFetchRetried ==
    [][\A c \in DOMAIN calls :
          (ReadFailed(c) /\ calls[c].page = 0 /\ navMounted)
              => /\ leaderboard' = leaderboard
                 /\ IF calls[c].retryCount < MaxRetries
                    THEN /\ Len(retryTimers') = Len(retryTimers) + 1
                         /\ retryTimers'[Len(retryTimers')].retryCount
                                = calls[c].retryCount + 1
                    ELSE leaderboardError' # <<>>]_vars

\* C17: with the answer log unchanged, a load whose fetch failed at most
\* twice before it was answered ends with the leaderboard of a load whose
\* fetch succeeded at once (logs of less than a page, so that every read is
\* the first page of an attempt).
C17_SameBoardAfterRetries ==
    (/\ BoardSettled /\ navMounted
     /\ failedReads <= 2
     /\ Len(WithoutIncorrect) < PAGE_SIZE
     /\ ~Throws(WithoutIncorrect))
        => leaderboard = leaderboardData(WithoutIncorrect)

\* C18: when a page read fails after k >= 1 pages were read, the load goes
\* on: the leaderboard is computed from exactly the rows of those k pages,
\* no error is set and no retry scheduled, and with no other load pending
\* the view leaves its loading state, so that the entries are displayed.
C18_PartialPagesShown ==
    [][\A c \in DOMAIN calls :
          (/\ ReadFailed(c) /\ calls[c].page >= 1 /\ navMounted
           /\ ~Throws(calls[c].allAnswers))
              => /\ calls[c].allAnswers = FirstPages(calls[c].page)
                 /\ leaderboard' = leaderboardData(FirstPages(calls[c].page))
                 /\ leaderboardError' = leaderboardError
                 /\ retryTimers' = retryTimers
                 /\ (calls' = EmptyMap /\ retryTimers' = <<>>)
                        => ~isLeaderboardLoading']_vars

C20_OneInFlight ==
    /\ Cardinality(DOMAIN pending) <= 1
    /\ Cardinality(DOMAIN calls) <= 1

\* C21: every load clears the loading flag when it ends: once no attempt is
\* in flight and no retry is scheduled, the mounted view is out of its
\* loading state, so it shows the result and the refresh button is enabled.
C21_LoadingCleared ==
    (BoardSettled /\ navMounted) => ~isLeaderboardLoading

\* The step ends the attempt that call c was making.
Ended(c) == c \in DOMAIN calls /\ c \notin DOMAIN calls'

\* C22: a retry chain is bounded: after every step, no attempt in flight has
\* a retryCount above 3, every scheduled retry is retry 1, 2 or 3 with a
\* delay of 1000, 2000 or 4000 ms in that order, each load has at most one
\* attempt or scheduled retry at a time, a retry is scheduled only by the
\* end of the attempt before it, and the end of retry 3 schedules nothing.
C22_RetryChainBounded ==
    [][/\ \A c \in DOMAIN calls' : calls'[c].retryCount \in 0..3
       /\ \A t \in 1..Len(retryTimers') :
              /\ retryTimers'[t].retryCount \in 1..3
              /\ retryTimers'[t].delay = <<1000, 2000, 4000>>[retryTimers'[t].retryCount]
       /\ Cardinality(DOMAIN calls') + Len(retryTimers') <= loadsStarted'
       /\ Len(retryTimers') > Len(retryTimers)
              => /\ Len(retryTimers') = Len(retryTimers) + 1
                 /\ \E c \in DOMAIN calls :
                        /\ Ended(c)
                        /\ retryTimers'[Len(retryTimers')].retryCount
                               = calls[c].retryCount + 1
       /\ \A c \in DOMAIN calls :
              (Ended(c) /\ calls[c].retryCount = 3)
                  => Len(retryTimers') <= Len(retryTimers)]_vars

\* The third retry of the only load has failed: nothing is in flight or
\* scheduled, the error is set and the flag cleared.
C22_Witness ==
    /\ BoardSettled /\ navMounted /\ loadsStarted = 1
    /\ leaderboardError # <<>>
    /\ ~isLeaderboardLoading

\* C23: while no page read fails, an attempt in flight holds exactly the
\* first `page` full pages of the store's correct rows, in order; a page
\* that is answered in full is appended and the next one requested; and the
\* attempt leaves the loop exactly when the page it asked for is shorter
\* than PAGE_SIZE or empty (the row count a multiple of PAGE_SIZE included),
\* with all the correct rows, each once, from which the leaderboard is made.
C23_PagesAssembled ==
    [][failedReads' = 0
          => /\ \A c \in DOMAIN calls' :
                    /\ calls'[c].allAnswers = FirstPages(calls'[c].page)
                    /\ Len(calls'[c].allAnswers) = calls'[c].page * PAGE_SIZE
             /\ \A c \in DOMAIN calls :
                    Ended(c)
                        => /\ Len(WithoutIncorrect) - calls[c].page * PAGE_SIZE < PAGE_SIZE
                           /\ Len(WithoutIncorrect) - calls[c].page * PAGE_SIZE >= 0
                           /\ (navMounted /\ ~Throws(WithoutIncorrect))
                                  => leaderboard' = leaderboardData(WithoutIncorrect)]_vars

\* A load of a table whose correct rows fill two pages exactly has ended
\* without a failed read: the leaderboard is the one of all the rows, which
\* the first page alone does not give.
C23_Witness ==
    /\ BoardSettled /\ navMounted /\ failedReads = 0
    /\ Len(WithoutIncorrect) = 2 * PAGE_SIZE
    /\ leaderboard = leaderboardData(WithoutIncorrect)
    /\ leaderboard # leaderboardData(FirstPages(1))

\* The step is a press of Go Back: on the locked screen the index changes
\* while no handler resumes.
WentBack ==
    /\ Mounted /\ View = "locked"
    /\ pending' = pending
    /\ currentQuestionIndex' # currentQuestionIndex

\* C24: a press of Go Back on the locked screen (index i > 0, the question
\* before it without a correct outcome) leaves the index on an accessible
\* question, so that the locked screen is left; the index does not go below
\* 0 and nothing but the index changes.
C24_GoBackRecovers ==
    [][WentBack
          => /\ View' # "locked"
             /\ currentQuestionIndex' >= 0
             /\ UNCHANGED <<questions, morseInput, questionStartTime, userProgress,
                            loading, store, toast, resultsTimer, route>>]_vars

\* C25: after a successful load, whatever was submitted, the progress view
\* is consistent with itself: completedQuestions holds no id twice and
\* exactly the ids whose outcome in answers is correct, and its
\* currentQuestionIndex is the current question index of the session.
C25_ProgressConsistent ==
    Loaded
        => /\ \A i, j \in 1..Len(userProgress.completedQuestions) :
                  userProgress.completedQuestions[i] = userProgress.completedQuestions[j]
                      => i = j
           /\ Range(userProgress.completedQuestions)
                  = {id \in DOMAIN userProgress.answers : userProgress.answers[id].isCorrect}
           /\ userProgress.currentQuestionIndex = currentQuestionIndex

====
